---- MODULE Spec2Model ----
(***************************************************************************)
(* NewsBrief AI: the digest pipeline of pipeline.py (fetch, normalize,     *)
(* summarize, annotate) and the Streamlit script of app.py that calls it   *)
(* through a time-to-live cache.                                           *)
(*                                                                         *)
(* Representation of Python values:                                        *)
(*   - a str that the code measures or slices (description, content, the   *)
(*     text handed to the summarizer) is a run-length encoded sequence of  *)
(*     runs [c, n]: n copies of character c, adjacent runs of different    *)
(*     characters, n > 0.  " " stands for any whitespace character.        *)
(*   - a str that the code slices by position only (publishedAt) is a      *)
(*     sequence of one-character strings.                                  *)
(*   - a str that the code only copies (title, url, source name) is a TLA+ *)
(*     string.                                                             *)
(*   - a value that may be None is a record [none, s]; s is the value when *)
(*     none is FALSE.                                                      *)
(***************************************************************************)
EXTENDS Integers, Sequences, FiniteSets, TLC

\* ------------------------------------------------------------- bounds
\* longest article list a provider response carries
MaxList == 2
\* number of clock ticks of the application's run
MaxTicks == 2

\* ------------------------------------------------------------- program constants
\* summarize_article: len(text.split()) < 40
MinWords == 40
\* summarize_article: text[:3000]
MaxChars == 3000
\* fetch_articles: (publishedAt or "")[:10]
DateLen == 10
\* st.cache_data(ttl=900)
TTL == 900
\* the HTTP status codes a provider response may carry: success and a failure
\* (the code never reads the status code, so it is kept as text)
HttpOk == "200"
HttpError == "500"

\* ------------------------------------------------------------- strings
Run(c, n) == [c |-> c, n |-> n]

\* k words of len characters each, separated by single blanks
RECURSIVE Words(_, _)
Words(k, len) ==
    IF k <= 0 THEN <<>>
    ELSE IF k = 1 THEN <<Run("a", len)>>
    ELSE Words(k \div 2, len) \o <<Run(" ", 1)>> \o Words(k - k \div 2, len)

\* the number of characters of the runs lo..hi of s
RECURSIVE RunsLen(_, _, _)
RunsLen(s, lo, hi) ==
    IF lo > hi THEN 0
    ELSE IF lo = hi THEN s[lo].n
    ELSE LET mid == (lo + hi) \div 2
         IN RunsLen(s, lo, mid) + RunsLen(s, mid + 1, hi)

\* len(s)
StrLen(s) == RunsLen(s, 1, Len(s))

\* len(s.split()): the number of maximal runs of non-whitespace characters
WordCount(s) ==
    Cardinality({j \in 1..Len(s) : s[j].c /= " " /\ (j = 1 \/ s[j - 1].c = " ")})

\* the first k characters of the runs lo..hi of s
RECURSIVE TakeRuns(_, _, _, _)
TakeRuns(s, lo, hi, k) ==
    IF k <= 0 \/ lo > hi THEN <<>>
    ELSE IF lo = hi THEN <<Run(s[lo].c, IF s[lo].n < k THEN s[lo].n ELSE k)>>
    ELSE LET mid == (lo + hi) \div 2
             left == RunsLen(s, lo, mid)
         IN IF left >= k THEN TakeRuns(s, lo, mid, k)
            ELSE SubSeq(s, lo, mid) \o TakeRuns(s, mid + 1, hi, k - left)

\* s[:k]
Take(s, k) == TakeRuns(s, 1, Len(s), k)

\* s[:k] of a string kept character by character
TakeChars(s, k) == SubSeq(s, 1, IF Len(s) < k THEN Len(s) ELSE k)

\* None and a str value, for a measured string
NoText == [none |-> TRUE, s |-> <<>>]
Text(s) == [none |-> FALSE, s |-> s]
\* None and a str value, for a copied string
NoStr == [none |-> TRUE, s |-> ""]
Str(s) == [none |-> FALSE, s |-> s]
\* None and a str value, for a string kept character by character
NoChars == [none |-> TRUE, s |-> <<>>]
Chars(s) == [none |-> FALSE, s |-> s]

\* Python truth of an optional str: None and "" are false
Truthy(x) == ~x.none /\ x.s /= <<>>
\* a or b
OrElse(a, b) == IF Truthy(a) THEN a ELSE b

\* ------------------------------------------------------------- provider data
\* body texts: their word counts and lengths straddle the two thresholds
TextFew == Words(10, 5)
TextBelow == Words(MinWords - 1, 3)
TextAt == Words(MinWords, 3)
TextLong == Words(MinWords, 80)
TextExact == Words(MinWords - 1, 74) \o <<Run(" ", 1), Run("a", 75)>>
TextFewLong == Words(10, 400)
TextBlank == <<Run(" ", 3)>>

Stamp == <<"2", "0", "2", "5", "-", "1", "0", "-", "0", "1",
           "T", "0", "9", ":", "3", "0", ":", "0", "0", "Z">>

SourceOf(name) == [state |-> "object", name |-> name]
SourceNull == [state |-> "null", name |-> NoStr]
SourceMissing == [state |-> "missing", name |-> NoStr]

Raw(title, description, content, source, publishedAt, url) ==
    [title |-> title, description |-> description, content |-> content,
     source |-> source, publishedAt |-> publishedAt, url |-> url]

\* the raw article objects a response may carry
ArticlePool ==
    { Raw(Str("t1"), Text(TextFew), Text(TextAt), SourceOf(Str("BBC")), Chars(Stamp), Str("u1")),
      Raw(Str("t2"), Text(TextLong), NoText, SourceOf(Str("Reuters")), Chars(Stamp), Str("u2")),
      Raw(Str("t3"), Text(<<>>), Text(TextAt), SourceMissing, NoChars, Str("u3")),
      Raw(NoStr, NoText, Text(TextExact), SourceOf(NoStr), Chars(<<"2", "0", "2", "5">>), NoStr),
      Raw(Str("t5"), NoText, NoText, SourceOf(Str("BBC")), Chars(Stamp), Str("u5")),
      Raw(Str("t6"), Text(TextBelow), NoText, SourceOf(Str("BBC")), Chars(Stamp), Str("u6")),
      Raw(Str("t7"), Text(TextBlank), Text(TextFewLong), SourceOf(Str("AP")), Chars(Stamp), Str("u7")) }

RawNullSource ==
    Raw(Str("t8"), Text(TextAt), NoText, SourceNull, Chars(Stamp), Str("u8"))

RECURSIVE ListsUpTo(_, _)
ListsUpTo(S, k) ==
    IF k = 0 THEN {<<>>}
    ELSE LET shorter == ListsUpTo(S, k - 1)
         IN shorter \cup {Append(l, x) : l \in {m \in shorter : Len(m) = k - 1}, x \in S}

\* The outcome of requests.get(url, timeout=10) followed by response.json():
\* kind "transport" is an exception of requests.get; otherwise a response with
\* its HTTP status, whether its body parses as JSON, whether the parsed body is
\* an object, the body's status field and its articles field.
Response(kind, http, json, object, status, arts, list) ==
    [kind |-> kind, http |-> http, json |-> json, object |-> object,
     status |-> status, arts |-> arts, list |-> list]

\* no request was made yet
NoResponse == Response("none", "", FALSE, FALSE, NoStr, "missing", <<>>)
TransportError == Response("transport", "", FALSE, FALSE, NoStr, "missing", <<>>)
NotJson(http) == Response("response", http, FALSE, FALSE, NoStr, "missing", <<>>)
JsonArray(http) == Response("response", http, TRUE, FALSE, NoStr, "missing", <<>>)
Body(http, status, arts, list) == Response("response", http, TRUE, TRUE, status, arts, list)

Responses ==
    {TransportError}
    \cup {NotJson(h) : h \in {HttpOk, HttpError}}
    \cup {JsonArray(h) : h \in {HttpOk, HttpError}}
    \cup {Body(h, st, "missing", <<>>) :
            h \in {HttpOk, HttpError}, st \in {Str("ok"), Str("error"), NoStr}}
    \cup {Body(h, st, "null", <<>>) : h \in {HttpOk}, st \in {Str("ok"), Str("error")}}
    \cup {Body(h, st, "list", l) :
            h \in {HttpOk, HttpError}, st \in {Str("ok"), Str("error")},
            l \in ListsUpTo(ArticlePool, MaxList)}
    \cup {Body(HttpOk, Str("ok"), "list", <<RawNullSource>>)}

\* the responses the provider gives the application: one of each kind
AppResponses ==
    { TransportError,
      Body(HttpOk, Str("ok"), "null", <<>>),
      Body(HttpOk, Str("ok"), "list", <<>>),
      Body(HttpOk, Str("ok"), "list",
           <<Raw(Str("t6"), Text(TextBelow), NoText, SourceOf(Str("BBC")), Chars(Stamp), Str("u6"))>>),
      Body(HttpOk, Str("ok"), "list",
           <<Raw(Str("t2"), Text(TextLong), NoText, SourceOf(Str("Reuters")), Chars(Stamp), Str("u2"))>>) }

\* the topic strings typed into the text input
QueryAI == <<Run("a", 1), Run("i", 1)>>
QueryEV == <<Run("e", 1), Run("v", 1)>>
QueryBlank == <<Run(" ", 2)>>
QueryEmpty == <<>>
Queries == {QueryAI, QueryEV, QueryBlank, QueryEmpty}

\* s.strip()
RECURSIVE StripLeft(_)
StripLeft(s) == IF s /= <<>> /\ Head(s).c = " " THEN StripLeft(Tail(s)) ELSE s
RECURSIVE StripRight(_)
StripRight(s) ==
    IF s /= <<>> /\ s[Len(s)].c = " " THEN StripRight(SubSeq(s, 1, Len(s) - 1)) ELSE s
Strip(s) == StripRight(StripLeft(s))

\* the keys the result cache can hold
Topics == {q \in Queries : Strip(q) /= <<>>}

\* ------------------------------------------------------------- pipeline.py
\* fetch_articles, lines 60-66: one normalized article
Normalize(a) ==
    [title |-> a.title,
     text |-> OrElse(a.description, a.content),
     source |-> a.source.name,
     date |-> TakeChars(IF Truthy(a.publishedAt) THEN a.publishedAt.s ELSE <<>>, DateLen),
     url |-> a.url]

\* a.get("source", {}).get("name") raises AttributeError when source is null
NormalizeRaises(a) == a.source.state = "null"

\* fetch_articles, lines 47-51: requests.get or response.json() raised
FetchCaught(r) == r.kind = "transport" \/ ~r.json

\* fetch_articles, line 53: the provider reports a failure
StatusNotOk(r) == r.status /= Str("ok")

\* fetch_articles: TRUE when an exception leaves the function.  data.get of a
\* body that is no object (line 53), the loop over a null article list
\* (line 57) and the name of a null source (line 63) are outside the try.
FetchRaises(r) ==
    /\ ~FetchCaught(r)
    /\ \/ ~r.object
       \/ /\ ~StatusNotOk(r)
          /\ \/ r.arts = "null"
             \/ r.arts = "list" /\ \E j \in 1..Len(r.list) : NormalizeRaises(r.list[j])

\* fetch_articles: the list returned when no exception leaves the function
FetchArticles(r) ==
    IF FetchCaught(r) THEN <<>>
    ELSE IF StatusNotOk(r) THEN <<>>
    ELSE IF r.arts = "missing" THEN <<>>
    ELSE [j \in 1..Len(r.list) |-> Normalize(r.list[j])]

\* the word test with <= in place of <
InsufficientInclusive(text) == ~Truthy(text) \/ WordCount(text.s) <= MinWords

\* summarize_article, line 76: not text or len(text.split()) < 40
Insufficient(text) == ~Truthy(text) \/ WordCount(text.s) < MinWords

\* the slice one character short
TruncateShort(s) == Take(s, MaxChars - 1)

\* summarize_article, line 80: text[:3000]
Truncate(s) == Take(s, MaxChars)

\* the three kinds of summary
InsufficientSummary ==
    [msg |-> "Summary unavailable due to insufficient article content.", of |-> <<>>]
LimitsSummary ==
    [msg |-> "Summary could not be generated due to processing limits.", of |-> <<>>]
\* summary[0]["summary_text"]: the model's output for the text it was given
Generated(t) == [msg |-> "summary_text", of |-> t]

\* explain_importance: the template around the formatted title
ExplainImportance(title) ==
    <<"This development around '", IF title.none THEN "None" ELSE title.s,
      "' may influence public opinion, market trends, or upcoming decisions related to this topic.">>

\* generate_news_digest, lines 120-127: the entry of one article
Entry(art, summary) ==
    [title |-> art.title, source |-> art.source, date |-> art.date,
     summary |-> summary, why_it_matters |-> ExplainImportance(art.title),
     url |-> art.url]

VARIABLES
    pc,          \* position of the process: idle, fetch, loop, returned, raised
    query,       \* user_query of the current call
    resp,        \* outcome of the current call's request
    requests,    \* requests.get calls of the current call
    articles,    \* fetch_articles' result
    digest,      \* generate_news_digest's digest list
    modelCalls,  \* summarizer(...) calls of the current call: article, text, handle, ok
    builds,      \* pipeline(...) constructions tried in the current call: article, ok
    raisedBy,    \* the function whose exception left generate_news_digest
    summarizer,  \* _summarizer: 0 is None, otherwise the handle's number
    built,       \* handles constructed in this process
    cache,       \* st.cache_data's entries of cached_news_digest, by topic
    results,     \* st.session_state.results
    screen,      \* messages the last script run displayed
    last,        \* what the last script run did
    now,         \* the clock, in seconds
    asked,       \* history: time of the latest Get-News of each topic, -1 if none
    shown,       \* history: what that latest Get-News put in results
    lastRun      \* history: time and result of the latest pipeline run stored per topic

callVars == <<pc, query, resp, requests, articles, digest, modelCalls, builds, raisedBy>>
procVars == <<summarizer, built>>
appVars == <<cache, results, screen, last, now, asked, shown, lastRun>>
vars == <<callVars, procVars, appVars>>

\* st.session_state.results and cache values: None or a list
NoResults == [none |-> TRUE, s |-> <<>>]
Results(d) == [none |-> FALSE, s |-> d]
NoEntry == [has |-> FALSE, value |-> <<>>, stored |-> 0]

Init ==
    /\ pc = "idle"
    /\ query = QueryEmpty
    /\ resp = NoResponse
    /\ requests = 0
    /\ articles = <<>>
    /\ digest = <<>>
    /\ modelCalls = <<>>
    /\ builds = <<>>
    /\ raisedBy = ""
    /\ summarizer = 0
    /\ built = 0
    /\ cache = [q \in Topics |-> NoEntry]
    /\ results = NoResults
    /\ screen = {}
    /\ last = "start"
    /\ now = 0
    /\ asked = [q \in Topics |-> -1]
    /\ shown = [q \in Topics |-> NoResults]
    /\ lastRun = [q \in Topics |-> NoEntry]

\* generate_news_digest is entered: line 113 is about to run
Enter(q) ==
    /\ pc' = "fetch"
    /\ query' = q
    /\ requests' = 0
    /\ articles' = <<>>
    /\ digest' = <<>>
    /\ modelCalls' = <<>>
    /\ builds' = <<>>
    /\ raisedBy' = ""
    /\ resp' = NoResponse

\* a caller other than the application (the local test of lines 132-136, or
\* any importer) calls generate_news_digest
Call(q) ==
    /\ pc \in {"idle", "returned", "raised"}
    /\ Enter(q)
    /\ UNCHANGED <<procVars, appVars>>

\* fetch_articles asking a second time after a failure it caught
FetchRetry(R) ==
    /\ pc = "fetch"
    /\ \E r \in R :
         /\ resp' = r
         /\ requests' = requests + (IF FetchCaught(r) THEN 2 ELSE 1)
         /\ IF FetchRaises(r)
            THEN pc' = "raised" /\ raisedBy' = "fetch_articles" /\ articles' = <<>>
            ELSE pc' = "loop" /\ raisedBy' = "" /\ articles' = FetchArticles(r)
    /\ UNCHANGED <<query, digest, modelCalls, builds, procVars, appVars>>

\* generate_news_digest line 113: fetch_articles answers r
Fetch(R) ==
    /\ pc = "fetch"
    /\ \E r \in R :
         /\ resp' = r
         /\ requests' = requests + 1
         /\ IF FetchRaises(r)
            THEN pc' = "raised" /\ raisedBy' = "fetch_articles" /\ articles' = <<>>
            ELSE pc' = "loop" /\ raisedBy' = "" /\ articles' = FetchArticles(r)
    /\ UNCHANGED <<query, digest, modelCalls, builds, procVars, appVars>>

\* the loop running over the articles from the last to the first
CurrentReversed == articles[Len(articles) - Len(digest)]

\* the article of the loop's next iteration
Current == articles[Len(digest) + 1]

\* get_summarizer without its test of line 28
MustBuildAlways == TRUE

\* get_summarizer, line 28: a handle must be constructed
MustBuild == summarizer = 0

\* the handle get_summarizer returns when the construction succeeds
Handle == IF MustBuild THEN built + 1 ELSE summarizer

\* get_summarizer's effect when it returns
GetSummarizer ==
    /\ summarizer' = Handle
    /\ built' = IF MustBuild THEN built + 1 ELSE built
    /\ builds' = IF MustBuild
                 THEN Append(builds, [art |-> Len(digest) + 1, ok |-> TRUE])
                 ELSE builds

\* summarizer(text, ...) is called with the truncated text, and answers (ok)
\* or raises
Invoke(ok) ==
    modelCalls' = Append(modelCalls,
        [art |-> Len(digest) + 1, text |-> Truncate(Current.text.s),
         handle |-> Handle, ok |-> ok])

\* one iteration, line 77: too little text
SummarizeInsufficient ==
    /\ pc = "loop" /\ Len(digest) < Len(articles)
    /\ Insufficient(Current.text)
    /\ digest' = Append(digest, Entry(Current, InsufficientSummary))
    /\ UNCHANGED <<pc, query, resp, requests, articles, modelCalls, builds, raisedBy,
                   procVars, appVars>>

\* one iteration, line 82: pipeline(...) raises inside get_summarizer, outside
\* the try of line 84
SummarizeBuildFails ==
    /\ pc = "loop" /\ Len(digest) < Len(articles)
    /\ ~Insufficient(Current.text)
    /\ MustBuild
    /\ builds' = Append(builds, [art |-> Len(digest) + 1, ok |-> FALSE])
    /\ pc' = "raised"
    /\ raisedBy' = "get_summarizer"
    /\ UNCHANGED <<query, resp, requests, articles, digest, modelCalls, procVars, appVars>>

\* one iteration, lines 85-91: the model answers
SummarizeGenerated ==
    /\ pc = "loop" /\ Len(digest) < Len(articles)
    /\ ~Insufficient(Current.text)
    /\ GetSummarizer
    /\ Invoke(TRUE)
    /\ digest' = Append(digest, Entry(Current, Generated(Truncate(Current.text.s))))
    /\ UNCHANGED <<pc, query, resp, requests, articles, raisedBy, appVars>>

\* one iteration, lines 92-93: the model call raises
SummarizeLimits ==
    /\ pc = "loop" /\ Len(digest) < Len(articles)
    /\ ~Insufficient(Current.text)
    /\ GetSummarizer
    /\ Invoke(FALSE)
    /\ digest' = Append(digest, Entry(Current, LimitsSummary))
    /\ UNCHANGED <<pc, query, resp, requests, articles, raisedBy, appVars>>

\* generate_news_digest, line 129
Return ==
    /\ pc = "loop" /\ Len(digest) = Len(articles)
    /\ pc' = "returned"
    /\ UNCHANGED <<query, resp, requests, articles, digest, modelCalls, builds, raisedBy,
                   procVars, appVars>>

\* the pipeline called directly, any number of times in one process
Next ==
    \/ \E q \in Topics : Call(q)
    \/ Fetch(Responses)
    \/ SummarizeInsufficient
    \/ SummarizeBuildFails
    \/ SummarizeGenerated
    \/ SummarizeLimits
    \/ Return

Spec == Init /\ [][Next]_vars

\* ------------------------------------------------------------- app.py
\* each clock tick lasts half the cache's time to live
TickStep == TTL \div 2

\* an entry served up to and including the age ttl
CacheFreshInclusive(e, t) == e.has /\ t - e.stored <= TTL

\* st.cache_data(ttl=900): an entry is served while it is younger than ttl
CacheFresh(e, t) == e.has /\ t - e.stored < TTL

\* st.cache_data: the entry of a call that returned value at time t
CacheEntry(value, t) == [has |-> TRUE, value |-> value, stored |-> t]

\* lines 74-89: what the script displays for st.session_state.results.  The
\* outer test is the truth of the list, so None and [] both display nothing.
Display(res) ==
    IF ~res.none /\ res.s /= <<>>
    THEN IF res.s = <<>> THEN {"No articles found. Try a different topic."}
         ELSE {"Found articles!"}
    ELSE {}

\* the script run ends: the locals of the finished call are gone
Leave ==
    /\ resp' = NoResponse
    /\ requests' = 0
    /\ articles' = <<>>
    /\ digest' = <<>>
    /\ modelCalls' = <<>>
    /\ builds' = <<>>
    /\ raisedBy' = ""

\* lines 59-62: Get News with a blank topic
GetNewsBlank(q) ==
    /\ pc = "idle"
    /\ Strip(q) = <<>>
    /\ screen' = {"Please enter a topic to search for news."} \cup Display(results)
    /\ last' = "warning"
    /\ UNCHANGED <<callVars, procVars, cache, results, now, asked, shown, lastRun>>

\* lines 59-67 and 74-89: Get News answered by the cache
GetNewsHit(q) ==
    /\ pc = "idle"
    /\ Strip(q) /= <<>>
    /\ CacheFresh(cache[q], now)
    /\ results' = Results(cache[q].value)
    /\ screen' = Display(results')
    /\ last' = "hit"
    /\ query' = q
    /\ asked' = [asked EXCEPT ![q] = now]
    /\ shown' = [shown EXCEPT ![q] = results']
    /\ UNCHANGED <<pc, resp, requests, articles, digest, modelCalls, builds, raisedBy,
                   procVars, cache, now, lastRun>>

\* lines 59-66: Get News with no fresh entry: cached_news_digest calls
\* generate_news_digest
GetNewsMiss(q) ==
    /\ pc = "idle"
    /\ Strip(q) /= <<>>
    /\ ~CacheFresh(cache[q], now)
    /\ Enter(q)
    /\ last' = "running"
    /\ asked' = [asked EXCEPT ![q] = now]
    /\ shown' = [shown EXCEPT ![q] = NoResults]
    /\ UNCHANGED <<procVars, cache, results, screen, now, lastRun>>

\* lines 66-67 and 74-89: generate_news_digest returned; the value is cached,
\* kept in the session and displayed
Stored ==
    /\ pc = "returned"
    /\ last = "running"
    /\ pc' = "idle"
    /\ cache' = [cache EXCEPT ![query] = CacheEntry(digest, now)]
    /\ results' = Results(digest)
    /\ screen' = Display(results')
    /\ last' = "ran"
    /\ shown' = [shown EXCEPT ![query] = results']
    /\ lastRun' = [lastRun EXCEPT ![query] = [has |-> TRUE, value |-> digest, stored |-> now]]
    /\ Leave
    /\ UNCHANGED <<query, procVars, now, asked>>

\* lines 69-71 and 74-89: generate_news_digest raised; nothing is cached and
\* the session keeps its results
Failed ==
    /\ pc = "raised"
    /\ last = "running"
    /\ pc' = "idle"
    /\ screen' = {"Something went wrong while fetching the news."} \cup Display(results)
    /\ last' = "error"
    /\ Leave
    /\ UNCHANGED <<query, procVars, cache, results, now, asked, shown, lastRun>>

\* lines 54-56: Reset, and the rerun it asks for
Reset ==
    /\ pc = "idle"
    /\ results' = NoResults
    /\ screen' = Display(results')
    /\ last' = "reset"
    /\ UNCHANGED <<callVars, procVars, cache, now, asked, shown, lastRun>>

\* a script run no button started (the text input changed)
Rerun ==
    /\ pc = "idle"
    /\ screen' = Display(results)
    /\ last' = "rerun"
    /\ UNCHANGED <<callVars, procVars, cache, results, now, asked, shown, lastRun>>

\* time passes, between script runs or while the request is in flight
Tick ==
    /\ pc \in {"idle", "fetch"}
    /\ now < MaxTicks * TickStep
    /\ now' = now + TickStep
    /\ UNCHANGED <<callVars, procVars, cache, results, screen, last, asked, shown, lastRun>>

\* the Streamlit application
NextApp ==
    \/ \E q \in Queries : GetNewsBlank(q)
    \/ \E q \in Queries : GetNewsHit(q)
    \/ \E q \in Queries : GetNewsMiss(q)
    \/ Fetch(AppResponses)
    \/ SummarizeInsufficient
    \/ SummarizeBuildFails
    \/ SummarizeGenerated
    \/ SummarizeLimits
    \/ Return
    \/ Stored
    \/ Failed
    \/ Reset
    \/ Rerun
    \/ Tick

SpecApp == Init /\ [][NextApp]_vars

\* ------------------------------------------------------------- claims
\* the call has a fetch outcome
Fetched == pc \in {"loop", "returned", "raised"}

\* the index set of a sequence
Indices(s) == 1..Len(s)

\* the full body text of article i, "" when it is None
BodyOf(i) == articles[i].text.s

\* article i has no body text or fewer than 40 words
FewWords(i) ==
    articles[i].text.none \/ BodyOf(i) = <<>> \/ WordCount(BodyOf(i)) < 40

CallsFor(i) == {j \in Indices(modelCalls) : modelCalls[j].art = i}
BuildsFor(i) == {j \in Indices(builds) : builds[j].art = i}

\* the fetch outcomes that count as failed
C1_FailedFetch ==
    \/ resp.kind = "transport"
    \/ resp.kind = "response" /\ resp.http /= "200"
    \/ resp.kind = "response" /\ resp.json /\ resp.object /\ resp.status /= Str("ok")

\* C1: a fetch whose outcome is a transport error, a response with a non-200
\* HTTP status, or a body whose status field is not "ok" makes fetch_articles
\* return the empty list, without raising and after exactly one request.
C1_FailedFetchReturnsEmpty ==
    (Fetched /\ C1_FailedFetch) =>
        /\ raisedBy /= "fetch_articles"
        /\ articles = <<>>
        /\ requests = 1

\* C2: no failure of an article's summarization step, the construction of the
\* model handle included, leaves generate_news_digest: the article's entry
\* carries the processing-limits placeholder and the call goes on.
C2_SummarizationFailureNeverPropagates ==
    /\ raisedBy /= "get_summarizer"
    /\ \A j \in Indices(modelCalls) :
         ~modelCalls[j].ok =>
            /\ modelCalls[j].art <= Len(digest)
            /\ digest[modelCalls[j].art].summary = LimitsSummary
    /\ \A j \in Indices(builds) :
         ~builds[j].ok =>
            /\ pc /= "raised"
            /\ builds[j].art <= Len(digest)
            /\ digest[builds[j].art].summary = LimitsSummary

\* article i was handled as one with too little text
C3_FewWordsSkipModel(i) ==
    /\ i <= Len(digest) => digest[i].summary = InsufficientSummary
    /\ CallsFor(i) = {}
    /\ BuildsFor(i) = {}

C5_DigestFollowsArticles ==
    pc = "returned" =>
        /\ Len(digest) = Len(articles)
        /\ \A i \in Indices(articles) :
              /\ digest[i].title = articles[i].title
              /\ digest[i].source = articles[i].source
              /\ digest[i].date = articles[i].date
              /\ digest[i].url = articles[i].url
\* a digest of two different articles, one of them summarized by the model
C5_Witness ==
    /\ pc = "returned"
    /\ Len(digest) = 2
    /\ digest[1].title /= digest[2].title
    /\ modelCalls /= <<>>

\* C6: over all calls of a process at most one handle is constructed, only for
\* an article that needs the model and only while none exists; every model
\* call uses that handle.
C6_OneHandle ==
    /\ built <= 1
    /\ summarizer = built
    /\ \A j \in Indices(modelCalls) : modelCalls[j].handle = 1 /\ built = 1
    /\ \A j \in Indices(builds) : ~FewWords(builds[j].art)
    /\ Len(builds) <= 1
\* a call that used the model with the handle an earlier call constructed
C6_Witness ==
    /\ pc = "returned"
    /\ modelCalls /= <<>>
    /\ builds = <<>>
    /\ built = 1

\* p is the text of the first characters of t
IsPrefix(p, t) ==
    /\ Len(p) <= Len(t)
    /\ \A j \in Indices(p) :
          /\ p[j].c = t[j].c
          /\ IF j < Len(p) THEN p[j].n = t[j].n ELSE p[j].n <= t[j].n

\* C7: the text a model call receives is the first 3000 characters of the
\* article's body text when that has 3000 characters or more, and the whole
\* body text otherwise.
C7_ModelInputIsPrefix ==
    \A j \in Indices(modelCalls) :
        LET body == BodyOf(modelCalls[j].art)
            given == modelCalls[j].text
        IN IF StrLen(body) >= 3000
           THEN StrLen(given) = 3000 /\ IsPrefix(given, body)
           ELSE given = body
\* one call made a model call with a text that was cut and a model call with
\* a text short enough to pass whole
C7_Witness ==
    /\ \E j \in Indices(modelCalls) : StrLen(BodyOf(modelCalls[j].art)) > 3000
    /\ \E j \in Indices(modelCalls) : StrLen(BodyOf(modelCalls[j].art)) < 3000

\* the provider answered successfully with no article
C8_ZeroResults ==
    /\ resp.kind = "response" /\ resp.http = "200" /\ resp.json /\ resp.object
    /\ resp.status = Str("ok")
    /\ resp.arts \in {"missing", "null"} \/ resp.list = <<>>

\* C8: a successful answer with zero results (an article list that is empty,
\* missing or null) makes generate_news_digest return the empty list and
\* raise nothing.
C8_ZeroResultsReturnEmpty ==
    (Fetched /\ C8_ZeroResults) =>
        /\ pc /= "raised"
        /\ articles = <<>>
        /\ digest = <<>>

\* C9: a call makes exactly one request, before any model call; the model
\* calls are made one article at a time in the articles' order, at most one per
\* article, and none when the fetch gave no article.
C9_OneRequestThenInOrder ==
    /\ pc = "fetch" => requests = 0 /\ modelCalls = <<>> /\ builds = <<>> /\ digest = <<>>
    /\ Fetched => requests = 1
    /\ modelCalls /= <<>> => requests = 1
    /\ \A j \in Indices(modelCalls) :
          /\ modelCalls[j].art \in Indices(articles)
          /\ modelCalls[j].art <= Len(digest)
          /\ j > 1 => modelCalls[j - 1].art < modelCalls[j].art
    /\ articles = <<>> => modelCalls = <<>>
\* a returned call with two model calls
C9_Witness ==
    /\ pc = "returned"
    /\ Len(modelCalls) = 2
    /\ requests = 1

\* C10: after Get News with a non-blank topic gave the empty digest, the
\* message "No articles found. Try a different topic." is displayed.
C10_EmptyDigestIsAnnounced ==
    (pc = "idle" /\ last \in {"ran", "hit"} /\ results = Results(<<>>)) =>
        "No articles found. Try a different topic." \in screen

\* this step is a Get News of topic q that the cache answers
HitStep(q) ==
    pc = "idle" /\ pc' = "idle" /\ last' = "hit" /\ now' = now /\ query' = q
\* this step is a Get News of topic q that runs the pipeline
MissStep(q) ==
    pc = "idle" /\ pc' = "fetch" /\ query' = q

\* C4, as stated: a Get News of a topic asked less than 900 s before, when that
\* earlier Get News gave a result, gives the same result and runs no pipeline.
C4_Original ==
    [][\A q \in Topics :
          ( /\ HitStep(q) \/ MissStep(q)
            /\ asked[q] >= 0 /\ now - asked[q] < 900
            /\ ~shown[q].none )
          => (HitStep(q) /\ results' = shown[q])]_vars

\* C4, amended: a Get News of a topic whose latest pipeline run returned and
\* was stored less than 900 s before gives that run's result and runs no
\* pipeline; every other Get News of a non-blank topic runs the pipeline.
C4_Amended ==
    [][\A q \in Topics :
          (HitStep(q) \/ MissStep(q)) =>
             IF lastRun[q].has /\ now - lastRun[q].stored < 900
             THEN HitStep(q) /\ results' = Results(lastRun[q].value) /\ requests' = 0
             ELSE MissStep(q)]_vars
\* the cache answered a Get News that came later than the run it repeats, with
\* a digest that is not empty
C4_Witness ==
    /\ last = "hit"
    /\ now > lastRun[query].stored
    /\ results.s /= <<>>

====
